---- MODULE Spec2Model ----
(***************************************************************************)
(* mini-lsm: the storage engine (lsm_storage.rs), the sorted-table and     *)
(* block layers (table.rs, table/*.rs, block.rs, block/*.rs) and the       *)
(* two-way merge iterator (iterators/two_merge_iterator.rs).               *)
(*                                                                         *)
(* Byte strings are sequences of numbers 0..255.  Offsets into byte        *)
(* strings are 0-based as in the source; Slice converts to TLA+ sequences. *)
(* Option/Result values are tuples: <<"Some", v>>, <<"None">>, <<"Ok", x>>,*)
(* <<"Err">>.                                                              *)
(***************************************************************************)
EXTENDS Integers, Sequences, FiniteSets, TLC

\* ---------------------------------------------------------------- bounds
\* Number of distinct user keys (one byte each).
NumKeys == 2
\* Number of distinct non-empty user values (one byte each).
NumValues == 1
\* Total number of put/delete calls in a run.
MaxWrites == 2
\* Total number of sync() calls started in a run.
MaxSyncs == 2
\* Number of threads that may run sync() at once (concurrent specification).
NumSyncers == 2
\* Number of distinct keys of the sequences given to a TwoMergeIterator.
NumMergeKeys == 3
MaxPerBlock == 2
MaxAdds == 3
\* Number of next() calls made on a cursor that is already invalid.
MaxPastEnd == 2

\* ------------------------------------------------------ program constants
SIZEOF_U16 == 2
SIZEOF_U32 == 4
\* SsTableBuilder::new(4096) in LsmStorage::sync
SYNC_BLOCK_SIZE == 4096
\* next_sst_id: 1 in LsmStorageInner::create
FIRST_SST_ID == 1
\* 2^16: the first length that `as u16` does not keep
U16_LIMIT == 65536

Keys == {<<i>> : i \in 1..NumKeys}
Values == {<<j>> : j \in 1..NumValues}
\* delete() writes the empty value
Tombstone == <<>>

None == <<"None">>
Err == <<"Err">>
Some(v) == <<"Some", v>>
Ok(x) == <<"Ok", x>>
IsErr(r) == r[1] = "Err"

\* ----------------------------------------------------------- byte strings
Min(a, b) == IF a <= b THEN a ELSE b

\* Lexicographic order of byte strings (Ord for [u8]).
BytesLess(a, b) ==
    \E i \in 1..(Min(Len(a), Len(b)) + 1) :
        /\ \A j \in 1..(i - 1) : a[j] = b[j]
        /\ \/ i > Len(a) /\ i <= Len(b)
           \/ i <= Len(a) /\ i <= Len(b) /\ a[i] < b[i]

BytesCmp(a, b) ==
    IF a = b THEN "Equal" ELSE IF BytesLess(a, b) THEN "Less" ELSE "Greater"

BytesLeq(a, b) == a = b \/ BytesLess(a, b)

\* buf[from..to) with 0-based offsets
Slice(buf, from, to) == SubSeq(buf, from + 1, to)

\* BufMut::put_u16 of (x as u16): big-endian, truncated to 16 bits
PutU16(x) == <<(x \div 256) % 256, x % 256>>

\* Buf::get_u16 at 0-based offset off
GetU16(buf, off) == buf[off + 1] * 256 + buf[off + 2]

\* BufMut::put_u32 of (x as u32)
PutU32(x) ==
    <<(x \div 16777216) % 256, (x \div 65536) % 256, (x \div 256) % 256, x % 256>>

GetU32(buf, off) ==
    buf[off + 1] * 16777216 + buf[off + 2] * 65536 + buf[off + 3] * 256 + buf[off + 4]

\* Ascending sequence of a finite set of byte strings (BTreeMap iteration order).
RECURSIVE SortedKeys(_)
SortedKeys(S) ==
    IF S = {} THEN <<>>
    ELSE LET m == CHOOSE x \in S : \A y \in S : BytesLeq(x, y)
         IN <<m>> \o SortedKeys(S \ {m})

\* An ordered map (BTreeMap / the memtable's map) is a function whose domain
\* is the set of bound keys.
EmptyMap == <<>>

MapInsert(map, k, v) == [x \in DOMAIN map \cup {k} |-> IF x = k THEN v ELSE map[x]]

\* ------------------------------------------------------------------ Block
\* Block { data, offsets }

\* Block::encode
RECURSIVE EncodeOffsets(_)
EncodeOffsets(offsets) ==
    IF offsets = <<>> THEN <<>>
    ELSE PutU16(Head(offsets)) \o EncodeOffsets(Tail(offsets))

BlockEncode(block) ==
    block.data \o EncodeOffsets(block.offsets) \o PutU16(Len(block.offsets))

\* Block::decode
BlockDecode(bytes) ==
    LET len == GetU16(bytes, Len(bytes) - SIZEOF_U16)
        data_end == Len(bytes) - (len + 1) * SIZEOF_U16
    IN [data |-> Slice(bytes, 0, data_end),
        offsets |-> [i \in 1..len |-> GetU16(bytes, data_end + (i - 1) * SIZEOF_U16)]]

\* Block::size: byte length of the encoded form
BlockSize(block) == Len(block.data) + Len(block.offsets) * SIZEOF_U16 + SIZEOF_U16

\* ------------------------------------------------------------ BlockBuilder
\* BlockBuilder { cap, size, map }
BlockBuilderNew(block_size) ==
    [cap |-> block_size, size |-> SIZEOF_U16, map |-> EmptyMap]

BlockBuilderIsEmpty(bb) == DOMAIN bb.map = {}

\* mutant: add refuses an entry over the capacity on an empty builder too
BlockBuilderAddNoFirst(bb, key, value) ==
    LET new_size ==
            IF key \in DOMAIN bb.map
            THEN bb.size + Len(value) - Len(bb.map[key])
            ELSE bb.size + Len(key) + Len(value) + SIZEOF_U16 * 3
    IN IF new_size > bb.cap
       THEN [ok |-> FALSE, builder |-> bb]
       ELSE [ok |-> TRUE,
             builder |-> [bb EXCEPT !.map = MapInsert(bb.map, key, value),
                                    !.size = new_size]]

\* mutant: add counts a replaced key as a new entry
BlockBuilderAddNoReplace(bb, key, value) ==
    LET new_size == bb.size + Len(key) + Len(value) + SIZEOF_U16 * 3
    IN IF new_size > bb.cap /\ ~BlockBuilderIsEmpty(bb)
       THEN [ok |-> FALSE, builder |-> bb]
       ELSE [ok |-> TRUE,
             builder |-> [bb EXCEPT !.map = MapInsert(bb.map, key, value),
                                    !.size = new_size]]

\* BlockBuilder::add: [ok, builder]
BlockBuilderAdd(bb, key, value) ==
    LET new_size ==
            IF key \in DOMAIN bb.map
            THEN bb.size + Len(value) - Len(bb.map[key])
            ELSE bb.size + Len(key) + Len(value) + SIZEOF_U16 * 3
    IN IF new_size > bb.cap /\ ~BlockBuilderIsEmpty(bb)
       THEN [ok |-> FALSE, builder |-> bb]
       ELSE [ok |-> TRUE,
             builder |-> [bb EXCEPT !.map = MapInsert(bb.map, key, value),
                                    !.size = new_size]]

\* BlockBuilder::build: the loop over the map in key order
RECURSIVE BuildEntries(_, _, _, _)
BuildEntries(keys, map, offsets, data) ==
    IF keys = <<>> THEN [data |-> data, offsets |-> offsets]
    ELSE LET k == Head(keys)
             v == map[k]
         IN BuildEntries(Tail(keys), map,
                         Append(offsets, Len(data) % 65536),
                         data \o PutU16(Len(k)) \o k \o PutU16(Len(v)) \o v)

BlockBuilderBuild(bb) == BuildEntries(SortedKeys(DOMAIN bb.map), bb.map, <<>>, <<>>)

\* BlockBuilder::first_key
BlockBuilderFirstKey(bb) ==
    IF BlockBuilderIsEmpty(bb) THEN None ELSE Some(Head(SortedKeys(DOMAIN bb.map)))

\* ----------------------------------------------------------- BlockIterator
\* BlockIterator { block, key, value, idx }; an empty key means invalid
BlockIterNew(block) == [block |-> block, key |-> <<>>, value |-> <<>>, idx |-> 0]

BlockIterKey(it) == it.key
BlockIterValue(it) == it.value
BlockIterIsValid(it) == it.key # <<>>

\* mutant: seek_to past the end forgets the index it was on
BlockIterSeekToReset(it, idx) ==
    IF idx >= Len(it.block.offsets)
    THEN [it EXCEPT !.key = <<>>, !.value = <<>>, !.idx = 0]
    ELSE LET offset == it.block.offsets[idx + 1]
             key_len == GetU16(it.block.data, offset)
             key == Slice(it.block.data, offset + SIZEOF_U16, offset + SIZEOF_U16 + key_len)
             voff == offset + SIZEOF_U16 + key_len
             value_len == GetU16(it.block.data, voff)
             value == Slice(it.block.data, voff + SIZEOF_U16, voff + SIZEOF_U16 + value_len)
         IN [it EXCEPT !.idx = idx, !.key = key, !.value = value]

\* BlockIterator::seek_to
BlockIterSeekTo(it, idx) ==
    IF idx >= Len(it.block.offsets)
    THEN [it EXCEPT !.key = <<>>, !.value = <<>>]
    ELSE LET offset == it.block.offsets[idx + 1]
             key_len == GetU16(it.block.data, offset)
             key == Slice(it.block.data, offset + SIZEOF_U16, offset + SIZEOF_U16 + key_len)
             voff == offset + SIZEOF_U16 + key_len
             value_len == GetU16(it.block.data, voff)
             value == Slice(it.block.data, voff + SIZEOF_U16, voff + SIZEOF_U16 + value_len)
         IN [it EXCEPT !.idx = idx, !.key = key, !.value = value]

BlockIterSeekToFirst(it) == BlockIterSeekTo(it, 0)

\* mutant: next passes over an entry
BlockIterNextSkip(it) == BlockIterSeekTo(it, it.idx + 2)

\* BlockIterator::next
BlockIterNext(it) == BlockIterSeekTo(it, it.idx + 1)

\* BlockIterator::seek_to_key: the binary search loop, then seek_to(lo)
RECURSIVE BlockIterSearch(_, _, _, _)
BlockIterSearch(it, key, lo, hi) ==
    IF lo < hi
    THEN LET mid == lo + (hi - lo) \div 2
             Branch(at, c) ==
                 IF c = "Less" THEN BlockIterSearch(at, key, mid + 1, hi)
                 ELSE IF c = "Greater" THEN BlockIterSearch(at, key, lo, mid)
                 ELSE at
             Compare(at) == Branch(at, BytesCmp(BlockIterKey(at), key))
         IN Compare(BlockIterSeekTo(it, mid))
    ELSE BlockIterSeekTo(it, lo)

\* mutant: seek_to_key goes to the first entry
BlockIterSeekToKeyFirst(it, key) == BlockIterSeekTo(it, 0)

BlockIterSeekToKey(it, key) == BlockIterSearch(it, key, 0, Len(it.block.offsets))

BlockIterCreateAndSeekToFirst(block) == BlockIterSeekToFirst(BlockIterNew(block))

BlockIterCreateAndSeekToKey(block, key) == BlockIterSeekToKey(BlockIterNew(block), key)

\* ------------------------------------------------------- SsTable, BlockMeta
\* BlockMeta { offset, first_key }
\* SsTable { file, block_metas, block_meta_offset, id }; the block cache is
\* shared by all tables and keyed by (id, block_idx).

\* BlockMeta::encode_block_meta
RECURSIVE EncodeBlockMeta(_)
EncodeBlockMeta(metas) ==
    IF metas = <<>> THEN <<>>
    ELSE LET m == Head(metas)
         IN PutU32(m.offset) \o PutU32(Len(m.first_key)) \o m.first_key
            \o EncodeBlockMeta(Tail(metas))

\* SsTable::num_of_blocks
NumOfBlocks(table) == Len(table.block_metas)

\* SsTable::read_block: Err on an index out of range
ReadBlock(table, block_idx) ==
    IF block_idx >= Len(table.block_metas) THEN Err
    ELSE LET offset == table.block_metas[block_idx + 1].offset
             len == IF block_idx + 1 < Len(table.block_metas)
                    THEN table.block_metas[block_idx + 2].offset - offset
                    ELSE table.block_meta_offset - offset
         IN Ok(BlockDecode(Slice(table.file, offset, offset + len)))

\* SsTable::read_block_cached: the cache returns the block first loaded under
\* (id, block_idx); the loader is read_block.
ReadBlockCached(table, block_idx) == ReadBlock(table, block_idx)

\* SsTable::find_block_idx
RECURSIVE FindBlockSearch(_, _, _, _)
FindBlockSearch(table, key, lo, hi) ==
    IF lo < hi
    THEN LET mid == lo + (hi - lo) \div 2
             Branch(c) ==
                 IF c = "Less" THEN FindBlockSearch(table, key, mid + 1, hi)
                 ELSE IF c = "Greater" THEN FindBlockSearch(table, key, lo, mid)
                 ELSE mid
         IN Branch(BytesCmp(table.block_metas[mid + 1].first_key, key))
    ELSE IF hi > 0 THEN hi - 1 ELSE 0

\* mutant: the first block, whatever the key
FindBlockIdxFirst(table, key) == 0

FindBlockIdx(table, key) == FindBlockSearch(table, key, 0, Len(table.block_metas))

\* ---------------------------------------------------------- SsTableBuilder
\* SsTableBuilder { data, meta, block_builder, block_size, first_key }
SsTableBuilderNew(block_size) ==
    [data |-> <<>>, meta |-> <<>>, block_builder |-> BlockBuilderNew(block_size),
     block_size |-> block_size, first_key |-> <<>>]

\* SsTableBuilder::estimated_size
RECURSIVE SumBlockSizes(_)
SumBlockSizes(blocks) ==
    IF blocks = <<>> THEN 0 ELSE BlockSize(Head(blocks)) + SumBlockSizes(Tail(blocks))

\* mutant: every block is recorded at the start of the file
EstimatedSizeZero(b) == 0

EstimatedSize(b) == SumBlockSizes(b.data)

\* SsTableBuilder::add
SsTableBuilderAdd(b, key, value) ==
    LET b1 == IF b.first_key = <<>> THEN [b EXCEPT !.first_key = key] ELSE b
        r == BlockBuilderAdd(b1.block_builder, key, value)
    IN IF r.ok THEN [b1 EXCEPT !.block_builder = r.builder]
       ELSE LET new_builder == BlockBuilderAdd(BlockBuilderNew(b1.block_size), key, value).builder
                old_builder == b1.block_builder
            IN [b1 EXCEPT !.block_builder = new_builder,
                          !.meta = Append(b1.meta, [offset |-> EstimatedSize(b1),
                                                    first_key |-> b1.first_key]),
                          !.data = Append(b1.data, BlockBuilderBuild(old_builder)),
                          !.first_key = key]

RECURSIVE EncodeBlocks(_)
EncodeBlocks(blocks) ==
    IF blocks = <<>> THEN <<>> ELSE BlockEncode(Head(blocks)) \o EncodeBlocks(Tail(blocks))

\* SsTableBuilder::build (the file write succeeds)
SsTableBuilderBuild(b, id) ==
    LET fin == IF ~BlockBuilderIsEmpty(b.block_builder)
               THEN [b EXCEPT !.meta = Append(b.meta, [offset |-> EstimatedSize(b),
                                                       first_key |-> b.first_key]),
                              !.data = Append(b.data, BlockBuilderBuild(b.block_builder))]
               ELSE b
        data == EncodeBlocks(fin.data)
        block_meta_offset == Len(data)
    IN [file |-> data \o EncodeBlockMeta(fin.meta) \o PutU32(block_meta_offset),
        block_metas |-> fin.meta,
        block_meta_offset |-> block_meta_offset,
        id |-> id]

\* --------------------------------------------------------- SsTableIterator
\* SsTableIterator { table, block_idx, block_iterator }

\* SsTableIterator::create_and_seek_to_first: Ok(iterator) or Err
SsTableIterCreateAndSeekToFirst(table) ==
    LET Create(block) ==
            IF IsErr(block) THEN Err
            ELSE Ok([table |-> table, block_idx |-> 0,
                     block_iterator |-> BlockIterCreateAndSeekToFirst(block[2])])
    IN Create(ReadBlock(table, 0))

\* mutant: create_and_seek_to_key stays in the block find_block_idx gave
SsTableIterCreateAndSeekToKeySameBlock(table, key) ==
    LET Seek(block_idx, block) ==
            IF IsErr(block) THEN Err
            ELSE Ok([table |-> table, block_idx |-> block_idx,
                     block_iterator |-> BlockIterCreateAndSeekToKey(block[2], key)])
        Find(block_idx) == Seek(block_idx, ReadBlock(table, block_idx))
    IN Find(FindBlockIdx(table, key))

\* SsTableIterator::create_and_seek_to_key: Ok(iterator) or Err
SsTableIterCreateAndSeekToKey(table, key) ==
    LET Create(block_idx, block) ==
            IF IsErr(block) THEN Err
            ELSE Ok([table |-> table, block_idx |-> block_idx,
                     block_iterator |-> BlockIterCreateAndSeekToKey(block[2], key)])
        NextBlock(block_idx, block_iterator) ==
            IF ~BlockIterIsValid(block_iterator) /\ block_idx + 1 < Len(table.block_metas)
            THEN Create(block_idx + 1, ReadBlock(table, block_idx + 1))
            ELSE Ok([table |-> table, block_idx |-> block_idx,
                     block_iterator |-> block_iterator])
        Seek(block_idx, block) ==
            IF IsErr(block) THEN Err
            ELSE NextBlock(block_idx, BlockIterCreateAndSeekToKey(block[2], key))
        Find(block_idx) == Seek(block_idx, ReadBlock(table, block_idx))
    IN Find(FindBlockIdx(table, key))

\* SsTableIterator::seek_to_key: the same steps on an existing iterator, the
\* blocks read through the cache
SsTableIterSeekToKey(it, key) ==
    LET Create(block_idx, block) ==
            IF IsErr(block) THEN Err
            ELSE Ok([it EXCEPT !.block_idx = block_idx,
                               !.block_iterator = BlockIterCreateAndSeekToKey(block[2], key)])
        NextBlock(block_idx, block_iterator) ==
            IF ~BlockIterIsValid(block_iterator) /\ block_idx + 1 < Len(it.table.block_metas)
            THEN Create(block_idx + 1, ReadBlockCached(it.table, block_idx + 1))
            ELSE Ok([it EXCEPT !.block_idx = block_idx, !.block_iterator = block_iterator])
        Seek(block_idx, block) ==
            IF IsErr(block) THEN Err
            ELSE NextBlock(block_idx, BlockIterCreateAndSeekToKey(block[2], key))
        Find(block_idx) == Seek(block_idx, ReadBlockCached(it.table, block_idx))
    IN Find(FindBlockIdx(it.table, key))

SsTableIterKey(it) == BlockIterKey(it.block_iterator)
SsTableIterValue(it) == BlockIterValue(it.block_iterator)
SsTableIterIsValid(it) == BlockIterIsValid(it.block_iterator)

\* mutant: next never loads the following block
SsTableIterNextSameBlock(it) ==
    Ok([it EXCEPT !.block_iterator = BlockIterNext(it.block_iterator)])

\* SsTableIterator::next: Ok(iterator) or Err
SsTableIterNext(it) ==
    LET NextBlock(block) ==
            IF IsErr(block) THEN Err
            ELSE Ok([it EXCEPT !.block_idx = it.block_idx + 1,
                               !.block_iterator = BlockIterCreateAndSeekToFirst(block[2])])
        Moved(moved) ==
            IF BlockIterIsValid(moved) THEN Ok([it EXCEPT !.block_iterator = moved])
            ELSE IF it.block_idx + 1 < Len(it.table.block_metas)
                 THEN NextBlock(ReadBlockCached(it.table, it.block_idx + 1))
                 ELSE Ok([it EXCEPT !.block_iterator = moved])
    IN Moved(BlockIterNext(it.block_iterator))

\* ---------------------------------------------------------------- MemTable
\* MemTable: an ordered map from key to value shared by reference; the state
\* keeps every memtable in the heap `memtables` and refers to it by its index.
MemTableCreate == EmptyMap

MemTableGet(m, key) == IF key \in DOMAIN m THEN Some(m[key]) ELSE None

MemTablePut(m, key, value) == MapInsert(m, key, value)

\* Bound<&[u8]>: <<"Included", k>>, <<"Excluded", k>>, <<"Unbounded">>
Unbounded == <<"Unbounded">>
Included(k) == <<"Included", k>>
Excluded(k) == <<"Excluded", k>>

AboveLower(lower, k) ==
    IF lower[1] = "Included" THEN BytesLeq(lower[2], k)
    ELSE IF lower[1] = "Excluded" THEN BytesLess(lower[2], k)
    ELSE TRUE

BelowUpper(upper, k) ==
    IF upper[1] = "Included" THEN BytesLeq(k, upper[2])
    ELSE IF upper[1] = "Excluded" THEN BytesLess(k, upper[2])
    ELSE TRUE

RECURSIVE EntriesOf(_, _)
EntriesOf(keys, m) ==
    IF keys = <<>> THEN <<>> ELSE <<<<Head(keys), m[Head(keys)]>>>> \o EntriesOf(Tail(keys), m)

\* MemTable::scan: the bindings inside the range, ascending
MemTableScan(m, lower, upper) ==
    EntriesOf(SortedKeys({k \in DOMAIN m : AboveLower(lower, k) /\ BelowUpper(upper, k)}), m)

\* MemTable::flush: feed every binding, ascending, to the table builder
RECURSIVE FlushEntries(_, _)
FlushEntries(entries, builder) ==
    IF entries = <<>> THEN builder
    ELSE FlushEntries(Tail(entries), SsTableBuilderAdd(builder, Head(entries)[1], Head(entries)[2]))

MemTableFlush(m, builder) == FlushEntries(EntriesOf(SortedKeys(DOMAIN m), m), builder)

\* ----------------------------------------------------------- MergeIterator
\* The k-way merge exposes the smallest key over its children, the lowest
\* index winning a tie, and advances every child positioned on that key.
\* A child is given as the sequence of entries it yields until invalid.
RECURSIVE SsTableIterDrain(_)
SsTableIterDrain(it) ==
    IF ~SsTableIterIsValid(it) THEN <<>>
    ELSE LET Rest(n) == IF IsErr(n) THEN <<>> ELSE SsTableIterDrain(n[2])
         IN <<<<SsTableIterKey(it), SsTableIterValue(it)>>>> \o Rest(SsTableIterNext(it))

RECURSIVE MergeEntries(_)
MergeEntries(children) ==
    LET valid == {i \in DOMAIN children : children[i] # <<>>}
    IN IF valid = {} THEN <<>>
       ELSE LET top == CHOOSE i \in valid : \A j \in valid :
                           \/ BytesLess(children[i][1][1], children[j][1][1])
                           \/ children[i][1][1] = children[j][1][1] /\ i <= j
                key == children[top][1][1]
            IN <<children[top][1]>>
               \o MergeEntries([i \in DOMAIN children |->
                                   IF children[i] # <<>> /\ children[i][1][1] = key
                                   THEN Tail(children[i]) ELSE children[i]])

\* MergeIterator { rest }: the entries not yet passed
MergeIteratorCreate(children) == [rest |-> MergeEntries(children)]
MergeIterIsValid(it) == it.rest # <<>>
MergeIterKey(it) == it.rest[1][1]
MergeIterValue(it) == it.rest[1][2]
MergeIterNext(it) == IF it.rest = <<>> THEN it ELSE [rest |-> Tail(it.rest)]

\* -------------------------------------------------------- TwoMergeIterator
\* TwoMergeIterator { a, b } over two MergeIterators

\* TwoMergeIterator::skip_b
RECURSIVE SkipBLoop(_)
SkipBLoop(tm) ==
    IF MergeIterIsValid(tm.b) /\ MergeIterKey(tm.a) = MergeIterKey(tm.b)
    THEN SkipBLoop([tm EXCEPT !.b = MergeIterNext(tm.b)])
    ELSE tm

\* mutant: skip_b leaves B on the key A is on
TwoMergeSkipBNoSkip(tm) == tm

TwoMergeSkipB(tm) == IF MergeIterIsValid(tm.a) THEN SkipBLoop(tm) ELSE tm

\* TwoMergeIterator::create
TwoMergeCreate(a, b) == TwoMergeSkipB([a |-> a, b |-> b])

\* mutant: A's entry is the current one whenever A is valid
TwoMergeUseAAlways(tm) == MergeIterIsValid(tm.a)

\* the test shared by key, value and next: is A's entry the current one
TwoMergeUseA(tm) ==
    IF ~MergeIterIsValid(tm.a) THEN FALSE
    ELSE IF ~MergeIterIsValid(tm.b) THEN TRUE
    ELSE BytesLeq(MergeIterKey(tm.a), MergeIterKey(tm.b))

\* TwoMergeIterator::key
TwoMergeKey(tm) == IF TwoMergeUseA(tm) THEN MergeIterKey(tm.a) ELSE MergeIterKey(tm.b)

\* TwoMergeIterator::value
TwoMergeValue(tm) == IF TwoMergeUseA(tm) THEN MergeIterValue(tm.a) ELSE MergeIterValue(tm.b)

\* TwoMergeIterator::is_valid
TwoMergeIsValid(tm) == MergeIterIsValid(tm.a) \/ MergeIterIsValid(tm.b)

\* mutant: next advances one side and does not call skip_b
TwoMergeNextNoSkip(tm) ==
    IF ~MergeIterIsValid(tm.a) THEN [tm EXCEPT !.b = MergeIterNext(tm.b)]
    ELSE IF ~MergeIterIsValid(tm.b) THEN [tm EXCEPT !.a = MergeIterNext(tm.a)]
    ELSE IF BytesLeq(MergeIterKey(tm.a), MergeIterKey(tm.b))
         THEN [tm EXCEPT !.a = MergeIterNext(tm.a)]
         ELSE [tm EXCEPT !.b = MergeIterNext(tm.b)]

\* TwoMergeIterator::next
TwoMergeNext(tm) ==
    IF ~MergeIterIsValid(tm.a) THEN [tm EXCEPT !.b = MergeIterNext(tm.b)]
    ELSE IF ~MergeIterIsValid(tm.b) THEN [tm EXCEPT !.a = MergeIterNext(tm.a)]
    ELSE IF BytesLeq(MergeIterKey(tm.a), MergeIterKey(tm.b))
         THEN TwoMergeSkipB([tm EXCEPT !.a = MergeIterNext(tm.a)])
         ELSE TwoMergeSkipB([tm EXCEPT !.b = MergeIterNext(tm.b)])

\* ------------------------------------------------ LsmIterator, FusedIterator
\* The user iterator stops at the upper bound and passes over empty values;
\* its result is given as the sequence of entries it yields until invalid.
RECURSIVE LsmIterDrain(_, _)
LsmIterDrain(tm, upper) ==
    IF ~TwoMergeIsValid(tm) THEN <<>>
    ELSE IF ~BelowUpper(upper, TwoMergeKey(tm)) THEN <<>>
    ELSE IF TwoMergeValue(tm) = <<>> THEN LsmIterDrain(TwoMergeNext(tm), upper)
    ELSE <<<<TwoMergeKey(tm), TwoMergeValue(tm)>>>> \o LsmIterDrain(TwoMergeNext(tm), upper)

\* -------------------------------------------------------------- LsmStorage
\* LsmStorageInner { memtable, imm_memtables, l0_sstables, next_sst_id }
\* memtable and imm_memtables hold indexes into the heap of memtables.
LsmStorageInnerCreate(memtable) ==
    [memtable |-> memtable, imm_memtables |-> <<>>, l0_sstables |-> <<>>,
     next_sst_id |-> FIRST_SST_ID]

Reverse(seq) == [i \in 1..Len(seq) |-> seq[Len(seq) + 1 - i]]

\* the loop over imm_memtables.iter().rev() in get
RECURSIVE GetFromImm(_, _, _)
GetFromImm(imms, heap, key) ==
    IF imms = <<>> THEN None
    ELSE LET r == MemTableGet(heap[Head(imms)], key)
         IN IF r # None THEN r ELSE GetFromImm(Tail(imms), heap, key)

\* the loops over l0_sstables.iter().rev() in get and scan: Ok(children) or Err
RECURSIVE TableIters(_, _)
TableIters(tables, lower) ==
    IF tables = <<>> THEN Ok(<<>>)
    ELSE LET SkipExcluded(at) ==
                 IF lower[1] # "Excluded" \/ IsErr(at) THEN at
                 ELSE IF SsTableIterIsValid(at[2]) /\ SsTableIterKey(at[2]) = lower[2]
                 THEN SsTableIterNext(at[2])
                 ELSE at
             Push(it, rest) ==
                 IF IsErr(rest) THEN Err ELSE Ok(<<SsTableIterDrain(it[2])>> \o rest[2])
             Collect(it) ==
                 IF IsErr(it) THEN Err ELSE Push(it, TableIters(Tail(tables), lower))
         IN IF lower[1] = "Unbounded"
            THEN Collect(SsTableIterCreateAndSeekToFirst(Head(tables)))
            ELSE Collect(SkipExcluded(SsTableIterCreateAndSeekToKey(Head(tables), lower[2])))

\* the L0 part of get: lines 79-91
GetFromL0(snapshot, key) ==
    LET Result(iter) ==
            IF MergeIterIsValid(iter) THEN Ok(Some(MergeIterValue(iter))) ELSE Ok(None)
        Merge(iters) ==
            IF IsErr(iters) THEN Err ELSE Result(MergeIteratorCreate(iters[2]))
    IN Merge(TableIters(Reverse(snapshot.l0_sstables), Included(key)))

\* LsmStorage::get on a snapshot: Ok(Some(v)), Ok(None) or Err
LsmGet(snapshot, heap, key) ==
    LET inMem == MemTableGet(heap[snapshot.memtable], key)
    IN IF inMem # None
       THEN (IF inMem[2] = <<>> THEN Ok(None) ELSE Ok(inMem))
       ELSE LET inImm == GetFromImm(Reverse(snapshot.imm_memtables), heap, key)
            IN IF inImm # None
               THEN (IF inImm[2] = <<>> THEN Ok(None) ELSE Ok(inImm))
               ELSE GetFromL0(snapshot, key)

\* LsmStorage::scan on a snapshot: Ok(entries yielded) or Err
LsmScan(snapshot, heap, lower, upper) ==
    LET mems == <<snapshot.memtable>> \o Reverse(snapshot.imm_memtables)
        memtable_iter ==
            MergeIteratorCreate([i \in 1..Len(mems) |-> MemTableScan(heap[mems[i]], lower, upper)])
        Merge(table_iters) ==
            IF IsErr(table_iters) THEN Err
            ELSE LET table_iter == MergeIteratorCreate(table_iters[2])
                     iter == TwoMergeCreate(memtable_iter, table_iter)
                 IN Ok(LsmIterDrain(iter, upper))
    IN Merge(TableIters(Reverse(snapshot.l0_sstables), lower))

\* sync, step 1 (under the write lock): freeze the memtable
\* `fresh` is the heap index of the memtable MemTable::create() returns
SyncFreezeInner(in, fresh) ==
    [in EXCEPT !.memtable = fresh,
               !.imm_memtables = Append(in.imm_memtables, in.memtable)]

\* sync, step 2 (no lock held): build the table from the frozen memtable
SyncBuildTable(flush_memtable, sst_id) ==
    SsTableBuilderBuild(MemTableFlush(flush_memtable, SsTableBuilderNew(SYNC_BLOCK_SIZE)), sst_id)

\* Vec::pop
Pop(seq) == IF seq = <<>> THEN seq ELSE SubSeq(seq, 1, Len(seq) - 1)

\* sync, step 3 (under the write lock): install the table
SyncInstallInner(in, sst) ==
    [in EXCEPT !.imm_memtables = Pop(in.imm_memtables),
               !.l0_sstables = Append(in.l0_sstables, sst),
               !.next_sst_id = in.next_sst_id + 1]

\* ------------------------------------------------------------------ state
VARIABLES
    memtables,  \* the heap of MemTable objects (Arc<MemTable>), by index
    inner,      \* the published snapshot: *self.inner
    syncers,    \* per sync() thread: its position and its locals
    reader,     \* the get() thread of the concurrent runs: position and locals
    last,       \* the call that last returned to the sequential caller
    latest,     \* history: the value of the last completed write of each key
    everPut,    \* history: the keys put at least once
    nwrites,    \* history: number of put/delete calls
    nsyncs,     \* history: number of sync() calls started
    built,      \* history: the ids of the tables built, in build order
    writer,     \* the put()/delete() thread of the locked runs: position and locals
    tm,         \* a TwoMergeIterator under test: position, inputs, iterator
    tmOut,      \* the entries it has yielded
    blockTest,  \* a BlockBuilder / Block / BlockIterator under test
    tableTest   \* an SsTableBuilder / SsTable / SsTableIterator under test

vars == <<memtables, inner, syncers, reader, last, latest, everPut, nwrites, nsyncs,
          built, writer, tm, tmOut, blockTest, tableTest>>

engineVars == <<memtables, inner, syncers, reader, last, latest, everPut, nwrites,
                nsyncs, built, writer>>

\* the variables of the component runs, which the engine never touches
testVars == <<tm, tmOut, blockTest, tableTest>>

Syncers == 1..NumSyncers

IdleSyncer == [pc |-> "idle", flush_memtable |-> 0, sst_id |-> 0, sst |-> <<>>]

IdleReader ==
    [pc |-> "idle", key |-> <<>>, snapshot |-> <<>>, result |-> <<>>,
     expect |-> <<>>, dirty |-> FALSE]

IdleWriter == [pc |-> "idle", key |-> <<>>, value |-> <<>>, memtable |-> 0]

Idle == <<"idle">>

\* the value a plain ordered map would hold for k (empty: unbound or deleted)
Latest(k) == IF k \in DOMAIN latest THEN latest[k] ELSE Tombstone

\* LsmStorage::open
EngineInit ==
    /\ memtables = <<MemTableCreate>>
    /\ inner = LsmStorageInnerCreate(1)
    /\ syncers = [t \in Syncers |-> IdleSyncer]
    /\ reader = IdleReader
    /\ last = Idle
    /\ latest = EmptyMap
    /\ everPut = {}
    /\ nwrites = 0
    /\ nsyncs = 0
    /\ built = <<>>
    /\ writer = IdleWriter

NoMerge == [pc |-> "off"]

NoBlockTest == [pc |-> "off"]

NoTableTest == [pc |-> "off"]

Init ==
    /\ EngineInit
    /\ tm = NoMerge
    /\ tmOut = <<>>
    /\ blockTest = NoBlockTest
    /\ tableTest = NoTableTest

\* the memtable write shared by put and delete: self.inner.read().memtable.put
WriteMemtable(key, value) ==
    /\ last = Idle
    /\ nwrites < MaxWrites
    /\ memtables' = [memtables EXCEPT ![inner.memtable] = MemTablePut(@, key, value)]
    /\ latest' = MapInsert(latest, key, value)
    /\ nwrites' = nwrites + 1
    /\ reader' = IF reader.pc = "snapshot" /\ reader.key = key
                 THEN [reader EXCEPT !.dirty = TRUE] ELSE reader
    /\ UNCHANGED <<inner, syncers, last, nsyncs, built, writer, testVars>>

\* LsmStorage::put
Put(key, value) ==
    /\ value # <<>>
    /\ key # <<>>
    /\ WriteMemtable(key, value)
    /\ everPut' = everPut \cup {key}

\* LsmStorage::delete
Delete(key) ==
    /\ key # <<>>
    /\ WriteMemtable(key, Tombstone)
    /\ UNCHANGED everPut

\* ------------------------------------------------- concurrent specification
\* sync, step 1
SyncFreeze(t) ==
    /\ syncers[t].pc = "idle"
    /\ nsyncs < MaxSyncs
    /\ memtables' = Append(memtables, MemTableCreate)
    /\ inner' = SyncFreezeInner(inner, Len(memtables) + 1)
    /\ syncers' = [syncers EXCEPT ![t] = [pc |-> "frozen",
                                          flush_memtable |-> inner.memtable,
                                          sst_id |-> inner.next_sst_id,
                                          sst |-> <<>>]]
    /\ nsyncs' = nsyncs + 1
    /\ UNCHANGED <<reader, last, latest, everPut, nwrites, built, writer, testVars>>

\* sync, step 2
SyncBuild(t) ==
    /\ syncers[t].pc = "frozen"
    /\ syncers' = [syncers EXCEPT ![t].pc = "built",
                                  ![t].sst = SyncBuildTable(memtables[syncers[t].flush_memtable],
                                                            syncers[t].sst_id)]
    /\ built' = Append(built, syncers[t].sst_id)
    /\ UNCHANGED <<memtables, inner, reader, last, latest, everPut, nwrites, nsyncs, writer, testVars>>

\* sync, step 3
SyncInstall(t) ==
    /\ syncers[t].pc = "built"
    /\ inner' = SyncInstallInner(inner, syncers[t].sst)
    /\ syncers' = [syncers EXCEPT ![t] = IdleSyncer]
    /\ UNCHANGED <<memtables, reader, last, latest, everPut, nwrites, nsyncs, built, writer, testVars>>

\* get, line 64: clone the snapshot under the read lock
GetSnapshot(key) ==
    /\ reader.pc = "idle"
    /\ reader' = [pc |-> "snapshot", key |-> key, snapshot |-> inner, result |-> <<>>,
                  expect |-> Latest(key), dirty |-> FALSE]
    /\ UNCHANGED <<memtables, inner, syncers, last, latest, everPut, nwrites, nsyncs,
                   built, writer, testVars>>

\* get, lines 65-91: the lookups through the cloned snapshot
GetRead ==
    /\ reader.pc = "snapshot"
    /\ reader' = [reader EXCEPT !.pc = "done",
                                !.result = LsmGet(reader.snapshot, memtables, reader.key)]
    /\ UNCHANGED <<memtables, inner, syncers, last, latest, everPut, nwrites, nsyncs,
                   built, writer, testVars>>

\* the caller takes the result
GetReturn ==
    /\ reader.pc = "done"
    /\ reader' = IdleReader
    /\ UNCHANGED <<memtables, inner, syncers, last, latest, everPut, nwrites, nsyncs,
                   built, writer, testVars>>

Next ==
    \/ \E k \in Keys, v \in Values : Put(k, v)
    \/ \E k \in Keys : Delete(k)
    \/ \E t \in Syncers : SyncFreeze(t)
    \/ \E t \in Syncers : SyncBuild(t)
    \/ \E t \in Syncers : SyncInstall(t)
    \/ \E k \in Keys : GetSnapshot(k)
    \/ GetRead
    \/ GetReturn

Spec == Init /\ [][Next]_vars

\* ------------------------------------------ specification with the RwLock
\* put and delete in two steps: `self.inner.read()` takes the read lock and
\* reaches the current memtable; the insert runs and the guard, a temporary
\* of the statement, is dropped after it. The write lock of sync's steps 1
\* and 3 is held inside one step each, so the lock's state is the writer's
\* position.

\* mutant: the write lock does not wait for the read guard
WriteLockAlwaysFree == TRUE

\* RwLock::write can be taken: no read guard is alive
WriteLockFree == writer.pc = "idle"

\* put / delete, `self.inner.read().memtable`
WriterLock(key, value) ==
    /\ writer.pc = "idle"
    /\ nwrites < MaxWrites
    /\ key # <<>>
    /\ writer' = [pc |-> "locked", key |-> key, value |-> value,
                  memtable |-> inner.memtable]
    /\ UNCHANGED <<memtables, inner, syncers, reader, last, latest, everPut, nwrites,
                   nsyncs, built, testVars>>

\* put / delete, `.put(key, value)` and the drop of the guard
WriterInsert ==
    /\ writer.pc = "locked"
    /\ memtables' = [memtables EXCEPT
                        ![writer.memtable] = MemTablePut(@, writer.key, writer.value)]
    /\ latest' = MapInsert(latest, writer.key, writer.value)
    /\ everPut' = IF writer.value # Tombstone THEN everPut \cup {writer.key} ELSE everPut
    /\ nwrites' = nwrites + 1
    /\ writer' = IdleWriter
    /\ UNCHANGED <<inner, syncers, reader, last, nsyncs, built, testVars>>

\* sync, step 1, behind `self.inner.write()`; the threads calling sync() are
\* interchangeable, so a new call takes the lowest idle one
LockedSyncFreeze(t) ==
    /\ WriteLockFree
    /\ \A u \in Syncers : u < t => syncers[u].pc # "idle"
    /\ SyncFreeze(t)

\* sync, step 3, behind `self.inner.write()`
LockedSyncInstall(t) == WriteLockFree /\ SyncInstall(t)

LockNext ==
    \/ \E k \in Keys, v \in Values \cup {Tombstone} : WriterLock(k, v)
    \/ WriterInsert
    \/ \E t \in Syncers : LockedSyncFreeze(t)
    \/ \E t \in Syncers : SyncBuild(t)
    \/ \E t \in Syncers : LockedSyncInstall(t)

LockSpec == Init /\ [][LockNext]_vars

\* ------------------------------------------------- sequential specification
\* One caller; every call runs to its return before the next starts.

\* LsmStorage::sync, the three steps back to back
Sync ==
    /\ last = Idle
    /\ nsyncs < MaxSyncs
    /\ \A t \in Syncers : syncers[t].pc = "idle"
    /\ LET flush_memtable == inner.memtable
           sst_id == inner.next_sst_id
           frozen == SyncFreezeInner(inner, Len(memtables) + 1)
           sst == SyncBuildTable(memtables[flush_memtable], sst_id)
       IN /\ memtables' = Append(memtables, MemTableCreate)
          /\ inner' = SyncInstallInner(frozen, sst)
          /\ built' = Append(built, sst_id)
    /\ nsyncs' = nsyncs + 1
    /\ UNCHANGED <<syncers, reader, last, latest, everPut, nwrites, writer, testVars>>

\* LsmStorage::get
Get(key) ==
    /\ last = Idle
    /\ last' = <<"get", key, LsmGet(inner, memtables, key)>>
    /\ UNCHANGED <<memtables, inner, syncers, reader, latest, everPut, nwrites, nsyncs,
                   built, writer, testVars>>

Bounds == {Unbounded} \cup {Included(k) : k \in Keys} \cup {Excluded(k) : k \in Keys}

\* LsmStorage::scan, and the caller iterating until the iterator is invalid
Scan(lower, upper) ==
    /\ last = Idle
    /\ last' = <<"scan", lower, upper, LsmScan(inner, memtables, lower, upper)>>
    /\ UNCHANGED <<memtables, inner, syncers, reader, latest, everPut, nwrites, nsyncs,
                   built, writer, testVars>>

\* the caller takes the result
Return ==
    /\ last # Idle
    /\ last' = Idle
    /\ UNCHANGED <<memtables, inner, syncers, reader, latest, everPut, nwrites, nsyncs,
                   built, writer, testVars>>

SeqNext ==
    \/ \E k \in Keys, v \in Values : Put(k, v)
    \/ \E k \in Keys : Delete(k)
    \/ Sync
    \/ \E k \in Keys : Get(k)
    \/ \E lower \in Bounds, upper \in Bounds : Scan(lower, upper)
    \/ Return

SeqSpec == Init /\ [][SeqNext]_vars

\* --------------------------- sequential specification with a failing build
\* LsmStorage::sync when flush or build returns an error (lines 128-133, the
\* `?`): step 1 has published the freeze, step 3 does not run, and the caller
\* gets the error.
SyncFail ==
    /\ last = Idle
    /\ nsyncs < MaxSyncs
    /\ \A t \in Syncers : syncers[t].pc = "idle"
    /\ memtables' = Append(memtables, MemTableCreate)
    /\ inner' = SyncFreezeInner(inner, Len(memtables) + 1)
    /\ nsyncs' = nsyncs + 1
    /\ last' = <<"sync", Err>>
    /\ UNCHANGED <<syncers, reader, latest, everPut, nwrites, built, writer, testVars>>

FailNext ==
    \/ \E k \in Keys, v \in Values : Put(k, v)
    \/ \E k \in Keys : Delete(k)
    \/ Sync
    \/ SyncFail
    \/ \E k \in Keys : Get(k)
    \/ \E lower \in Bounds, upper \in Bounds : Scan(lower, upper)
    \/ Return

FailSpec == Init /\ [][FailNext]_vars

\* ---------------------------------------------- TwoMergeIterator under test
\* Init draws two strictly ascending sequences; the caller creates the
\* iterator and reads key/value, then next, until it is invalid.
MergeKeys == {<<i>> : i \in 1..NumMergeKeys}

MergeValues == Values \cup {Tombstone}

SortedSeqs ==
    {EntriesOf(SortedKeys(DOMAIN f), f) :
        f \in UNION {[S -> MergeValues] : S \in SUBSET MergeKeys}}

TwoMergeInit ==
    /\ EngineInit
    /\ tmOut = <<>>
    /\ blockTest = NoBlockTest
    /\ tableTest = NoTableTest
    /\ \E A \in SortedSeqs, B \in SortedSeqs :
          tm = [pc |-> "new", a |-> A, b |-> B, iter |-> <<>>]

TMCreate ==
    /\ tm.pc = "new"
    /\ tm' = [tm EXCEPT !.pc = "iter",
                        !.iter = TwoMergeCreate([rest |-> tm.a], [rest |-> tm.b])]
    /\ UNCHANGED <<engineVars, tmOut, blockTest, tableTest>>

TMStep ==
    /\ tm.pc = "iter"
    /\ TwoMergeIsValid(tm.iter)
    /\ tmOut' = Append(tmOut, <<TwoMergeKey(tm.iter), TwoMergeValue(tm.iter)>>)
    /\ tm' = [tm EXCEPT !.iter = TwoMergeNext(tm.iter)]
    /\ UNCHANGED <<engineVars, blockTest, tableTest>>

TMFinish ==
    /\ tm.pc = "iter"
    /\ ~TwoMergeIsValid(tm.iter)
    /\ tm' = [tm EXCEPT !.pc = "done"]
    /\ UNCHANGED <<engineVars, tmOut, blockTest, tableTest>>

TwoMergeNextStep == TMCreate \/ TMStep \/ TMFinish

TwoMergeSpec == TwoMergeInit /\ [][TwoMergeNextStep]_vars

\* ------------------------------------------- SsTable components under test
\* Init draws a block size and a non-empty strictly ascending sequence of
\* entries; the caller feeds the sequence to an SsTableBuilder, builds the
\* table, and then either iterates it from the first entry, or seeks a key, or
\* asks for the block of a key.
TestKeys == Keys \cup {k \o <<5>> : k \in Keys}

ProbeKeys == TestKeys \cup {<<0>>, <<9>>}

\* a block size below every entry, block sizes that fit 1..MaxPerBlock entries
\* of one key byte and one value byte, and the block size of sync()
TestBlockSizes ==
    {SIZEOF_U16 + n * (2 + 3 * SIZEOF_U16) : n \in 0..MaxPerBlock} \cup {SYNC_BLOCK_SIZE}

TableInputs ==
    {EntriesOf(SortedKeys(DOMAIN f), f) :
        f \in UNION {[S -> MergeValues] : S \in (SUBSET TestKeys) \ {{}}}}

TableInit ==
    /\ EngineInit
    /\ tm = NoMerge
    /\ tmOut = <<>>
    /\ blockTest = NoBlockTest
    /\ \E block_size \in TestBlockSizes, input \in TableInputs :
          tableTest = [pc |-> "add", block_size |-> block_size, input |-> input,
                       todo |-> input, builder |-> SsTableBuilderNew(block_size),
                       table |-> <<>>, iter |-> <<>>, out |-> <<>>, key |-> <<>>,
                       found |-> 0]

\* builder.add(key, value) for the next entry of the input
TBAdd ==
    /\ tableTest.pc = "add"
    /\ tableTest.todo # <<>>
    /\ tableTest' = [tableTest EXCEPT
                        !.builder = SsTableBuilderAdd(@, Head(tableTest.todo)[1],
                                                      Head(tableTest.todo)[2]),
                        !.todo = Tail(@)]
    /\ UNCHANGED <<engineVars, tm, tmOut, blockTest>>

\* builder.build_for_test(path)
TBBuild ==
    /\ tableTest.pc = "add"
    /\ tableTest.todo = <<>>
    /\ tableTest' = [tableTest EXCEPT !.pc = "built",
                                      !.table = SsTableBuilderBuild(tableTest.builder, 0)]
    /\ UNCHANGED <<engineVars, tm, tmOut, blockTest>>

\* the iterator a call returned: kept, or the run ends on the error
TableTestIter(r, pc) ==
    IF IsErr(r) THEN [tableTest EXCEPT !.pc = "err"]
    ELSE [tableTest EXCEPT !.pc = pc, !.iter = r[2]]

\* SsTableIterator::create_and_seek_to_first(table)
TIFirst ==
    /\ tableTest.pc = "built"
    /\ tableTest' = TableTestIter(SsTableIterCreateAndSeekToFirst(tableTest.table), "iter")
    /\ UNCHANGED <<engineVars, tm, tmOut, blockTest>>

\* read key() and value(), then next()
TINext ==
    /\ tableTest.pc = "iter"
    /\ SsTableIterIsValid(tableTest.iter)
    /\ tableTest' =
          [TableTestIter(SsTableIterNext(tableTest.iter), "iter") EXCEPT
              !.out = Append(@, <<SsTableIterKey(tableTest.iter),
                                  SsTableIterValue(tableTest.iter)>>)]
    /\ UNCHANGED <<engineVars, tm, tmOut, blockTest>>

TIFinish ==
    /\ tableTest.pc = "iter"
    /\ ~SsTableIterIsValid(tableTest.iter)
    /\ tableTest' = [tableTest EXCEPT !.pc = "done"]
    /\ UNCHANGED <<engineVars, tm, tmOut, blockTest>>

\* SsTableIterator::create_and_seek_to_key(table, key)
TICreateAndSeekToKey(key) ==
    /\ tableTest.pc = "built"
    /\ tableTest' =
          [TableTestIter(SsTableIterCreateAndSeekToKey(tableTest.table, key), "sought")
              EXCEPT !.key = key]
    /\ UNCHANGED <<engineVars, tm, tmOut, blockTest>>

\* iter.seek_to_key(key) on an iterator that is somewhere in the table
TISeekToKey(key) ==
    /\ tableTest.pc = "iter"
    /\ tableTest' =
          [TableTestIter(SsTableIterSeekToKey(tableTest.iter, key), "sought")
              EXCEPT !.key = key]
    /\ UNCHANGED <<engineVars, tm, tmOut, blockTest>>

\* table.find_block_idx(key)
TFindBlockIdx(key) ==
    /\ tableTest.pc = "built"
    /\ tableTest' = [tableTest EXCEPT !.pc = "found", !.key = key,
                                      !.found = FindBlockIdx(tableTest.table, key)]
    /\ UNCHANGED <<engineVars, tm, tmOut, blockTest>>

TableNext ==
    \/ TBAdd
    \/ TBBuild
    \/ TIFirst
    \/ TINext
    \/ TIFinish
    \/ \E key \in ProbeKeys : TICreateAndSeekToKey(key)
    \/ \E key \in ProbeKeys : TISeekToKey(key)
    \/ \E key \in ProbeKeys : TFindBlockIdx(key)

TableSpec == TableInit /\ [][TableNext]_vars

\* --------------------------------------------- Block components under test
\* Init draws a target size; the caller makes up to MaxAdds add calls with
\* any keys and values, builds the block, encodes and decodes it, and then
\* either iterates it from the first entry or seeks a key.
BlockInit ==
    /\ EngineInit
    /\ tm = NoMerge
    /\ tmOut = <<>>
    /\ tableTest = NoTableTest
    /\ \E block_size \in TestBlockSizes :
          blockTest = [pc |-> "build", builder |-> BlockBuilderNew(block_size),
                       accepted |-> EmptyMap, nadds |-> 0,
                       lastAdd |-> [key |-> <<>>, value |-> <<>>, ok |-> TRUE,
                                    before |-> BlockBuilderNew(block_size)],
                       block |-> <<>>, iter |-> <<>>, out |-> <<>>, key |-> <<>>]

\* builder.add(key, value)
BBAdd(key, value) ==
    /\ blockTest.pc = "build"
    /\ blockTest.nadds < MaxAdds
    /\ LET Added(r) ==
               [blockTest EXCEPT
                   !.builder = r.builder,
                   !.accepted = IF r.ok THEN MapInsert(@, key, value) ELSE @,
                   !.nadds = @ + 1,
                   !.lastAdd = [key |-> key, value |-> value, ok |-> r.ok,
                                before |-> blockTest.builder]]
       IN blockTest' = Added(BlockBuilderAdd(blockTest.builder, key, value))
    /\ UNCHANGED <<engineVars, tm, tmOut, tableTest>>

\* Block::decode(builder.build().encode())
BBBuild ==
    /\ blockTest.pc = "build"
    /\ blockTest' =
          [blockTest EXCEPT
              !.pc = "built",
              !.block = BlockDecode(BlockEncode(BlockBuilderBuild(blockTest.builder)))]
    /\ UNCHANGED <<engineVars, tm, tmOut, tableTest>>

\* BlockIterator::create_and_seek_to_first(block)
BBFirst ==
    /\ blockTest.pc = "built"
    /\ blockTest' = [blockTest EXCEPT
                        !.pc = "iter",
                        !.iter = BlockIterCreateAndSeekToFirst(blockTest.block)]
    /\ UNCHANGED <<engineVars, tm, tmOut, tableTest>>

\* read key() and value(), then next()
BBNext ==
    /\ blockTest.pc = "iter"
    /\ BlockIterIsValid(blockTest.iter)
    /\ blockTest' = [blockTest EXCEPT
                        !.out = Append(@, <<BlockIterKey(blockTest.iter),
                                            BlockIterValue(blockTest.iter)>>),
                        !.iter = BlockIterNext(@)]
    /\ UNCHANGED <<engineVars, tm, tmOut, tableTest>>

BBFinish ==
    /\ blockTest.pc = "iter"
    /\ ~BlockIterIsValid(blockTest.iter)
    /\ blockTest' = [blockTest EXCEPT !.pc = "done"]
    /\ UNCHANGED <<engineVars, tm, tmOut, tableTest>>

\* BlockIterator::create_and_seek_to_key(block, key)
BBCreateAndSeekToKey(key) ==
    /\ blockTest.pc = "built"
    /\ blockTest' = [blockTest EXCEPT
                        !.pc = "sought", !.key = key,
                        !.iter = BlockIterCreateAndSeekToKey(blockTest.block, key)]
    /\ UNCHANGED <<engineVars, tm, tmOut, tableTest>>

\* iter.seek_to_key(key) on an iterator that is somewhere in the block
BBSeekToKey(key) ==
    /\ blockTest.pc = "iter"
    /\ blockTest' = [blockTest EXCEPT !.pc = "sought", !.key = key,
                                      !.iter = BlockIterSeekToKey(@, key)]
    /\ UNCHANGED <<engineVars, tm, tmOut, tableTest>>

BlockNext ==
    \/ \E key \in TestKeys, value \in MergeValues : BBAdd(key, value)
    \/ BBBuild
    \/ BBFirst
    \/ BBNext
    \/ BBFinish
    \/ \E key \in ProbeKeys : BBCreateAndSeekToKey(key)
    \/ \E key \in ProbeKeys : BBSeekToKey(key)

BlockSpec == BlockInit /\ [][BlockNext]_vars

\* ------------------------------------------------ cursors past their end
\* Init draws a non-empty strictly ascending sequence of entries and gives the
\* caller either the block that holds all of them or, for a drawn block size,
\* the table built from them; the caller positions a cursor (from the first
\* entry, or by a seek) and, once the cursor is invalid, goes on calling
\* next() up to MaxPastEnd times.
FusedInit ==
    /\ EngineInit
    /\ tm = NoMerge
    /\ tmOut = <<>>
    /\ \E input \in SortedSeqs \ {<<>>} :
          \/ /\ tableTest = NoTableTest
             /\ blockTest =
                   [pc |-> "built",
                    block |-> BlockDecode(BlockEncode(BlockBuilderBuild(
                                  FlushEntries(input, SsTableBuilderNew(SYNC_BLOCK_SIZE))
                                      .block_builder))),
                    input |-> input, iter |-> <<>>, out |-> <<>>, key |-> <<>>,
                    past |-> 0]
          \/ /\ blockTest = NoBlockTest
             /\ \E block_size \in TestBlockSizes :
                   tableTest =
                      [pc |-> "built", block_size |-> block_size, input |-> input,
                       table |-> SsTableBuilderBuild(
                                     FlushEntries(input, SsTableBuilderNew(block_size)), 0),
                       iter |-> <<>>, out |-> <<>>, key |-> <<>>, found |-> 0,
                       past |-> 0]

\* BlockIterator::next on an invalid iterator
BBNextPast ==
    /\ blockTest.pc \in {"iter", "sought", "past"}
    /\ ~BlockIterIsValid(blockTest.iter)
    /\ blockTest.past < MaxPastEnd
    /\ blockTest' = [blockTest EXCEPT !.pc = "past", !.past = @ + 1,
                                      !.iter = BlockIterNext(@)]
    /\ UNCHANGED <<engineVars, tm, tmOut, tableTest>>

\* SsTableIterator::next on an invalid iterator
TINextPast ==
    /\ tableTest.pc \in {"iter", "sought", "past"}
    /\ ~SsTableIterIsValid(tableTest.iter)
    /\ tableTest.past < MaxPastEnd
    /\ tableTest' = [TableTestIter(SsTableIterNext(tableTest.iter), "past")
                        EXCEPT !.past = @ + 1]
    /\ UNCHANGED <<engineVars, tm, tmOut, blockTest>>

FusedNext ==
    \/ BBFirst
    \/ BBNext
    \/ \E key \in ProbeKeys : BBCreateAndSeekToKey(key)
    \/ \E key \in ProbeKeys : BBSeekToKey(key)
    \/ BBNextPast
    \/ TIFirst
    \/ TINext
    \/ \E key \in ProbeKeys : TICreateAndSeekToKey(key)
    \/ \E key \in ProbeKeys : TISeekToKey(key)
    \/ TINextPast

FusedSpec == FusedInit /\ [][FusedNext]_vars

\* ------------------------------------------------- a block of one entry
\* Init draws a target size and the lengths of a key and of a value, around
\* one byte and around 2^16 bytes; the caller adds the pair to a fresh
\* BlockBuilder, then builds the block, encodes and decodes it, and reads it
\* with create_and_seek_to_first. The state keeps the lengths and what the
\* calls returned, not the byte strings.
PairKeyLens == {1, U16_LIMIT - 1, U16_LIMIT, U16_LIMIT + 1}

PairValueLens == {0, 1, U16_LIMIT - 1, U16_LIMIT, U16_LIMIT + 1}

\* len bytes, all equal to byte
Fill(byte, len) == [i \in 1..len |-> byte]

PairKey == Fill(1, blockTest.key_len)

PairValue == Fill(2, blockTest.value_len)

PairInit ==
    /\ EngineInit
    /\ tm = NoMerge
    /\ tmOut = <<>>
    /\ tableTest = NoTableTest
    /\ \E block_size \in TestBlockSizes, key_len \in PairKeyLens, value_len \in PairValueLens :
          blockTest = [pc |-> "new", block_size |-> block_size,
                       key_len |-> key_len, value_len |-> value_len,
                       ok |-> FALSE, size |-> 0,
                       valid |-> FALSE, same_key |-> FALSE, same_value |-> FALSE,
                       read_key_len |-> 0, read_value_len |-> 0]

\* BlockBuilder::new(block_size), then add(key, value)
PairBuilder == BlockBuilderAdd(BlockBuilderNew(blockTest.block_size), PairKey, PairValue)

\* the caller sees what add returned
PairAdd ==
    /\ blockTest.pc = "new"
    /\ LET Added(r) == [blockTest EXCEPT !.pc = "added", !.ok = r.ok,
                                         !.size = r.builder.size]
       IN blockTest' = Added(PairBuilder)
    /\ UNCHANGED <<engineVars, tm, tmOut, tableTest>>

\* Block::decode(builder.build().encode()), create_and_seek_to_first, and
\* is_valid(), key() and value() compared with the pair that was added
PairRead ==
    /\ blockTest.pc = "added"
    /\ LET Read(it) ==
               [blockTest EXCEPT
                   !.pc = "read",
                   !.valid = BlockIterIsValid(it),
                   !.same_key = BlockIterKey(it) = PairKey,
                   !.same_value = BlockIterValue(it) = PairValue,
                   !.read_key_len = Len(BlockIterKey(it)),
                   !.read_value_len = Len(BlockIterValue(it))]
       IN blockTest' =
             Read(BlockIterCreateAndSeekToFirst(
                      BlockDecode(BlockEncode(BlockBuilderBuild(PairBuilder.builder)))))
    /\ UNCHANGED <<engineVars, tm, tmOut, tableTest>>

PairNext == PairAdd \/ PairRead

PairSpec == PairInit /\ [][PairNext]_vars

\* ------------------------------------------------------ reference semantics
\* What a plain ordered map with delete as removal answers.
RefGet(k) == IF Latest(k) = Tombstone THEN None ELSE Some(Latest(k))

RefScan(lower, upper) ==
    EntriesOf(SortedKeys({k \in DOMAIN latest :
                             /\ latest[k] # Tombstone
                             /\ AboveLower(lower, k)
                             /\ BelowUpper(upper, k)}), latest)

\* The entries a table holds, read block by block.
TableEntries(table) ==
    IF NumOfBlocks(table) = 0 THEN <<>>
    ELSE SsTableIterDrain(SsTableIterCreateAndSeekToFirst(table)[2])

KeysOfEntries(entries) == {entries[i][1] : i \in DOMAIN entries}

EntriesAsMap(entries) ==
    [k \in KeysOfEntries(entries) |->
        entries[CHOOSE i \in DOMAIN entries : entries[i][1] = k][2]]

\* The layers of a snapshot in read order, each as a map: the memtable, the
\* frozen memtables last to first, the L0 tables last to first.
ReadOrderLayers(snapshot, heap) ==
    <<heap[snapshot.memtable]>>
    \o [i \in 1..Len(snapshot.imm_memtables) |->
           heap[Reverse(snapshot.imm_memtables)[i]]]
    \o [i \in 1..Len(snapshot.l0_sstables) |->
           EntriesAsMap(TableEntries(Reverse(snapshot.l0_sstables)[i]))]

LayersBinding(layers, k) == {i \in DOMAIN layers : k \in DOMAIN layers[i]}

\* the entries a scan emitted (none when scan returned an error)
Emitted(result) == IF IsErr(result) THEN <<>> ELSE result[2]

\* ------------------------------------------------------------------ claims

\* C1: sequential read-your-writes: a get(k) issued when the last write to k
\* was put(k,v) returns Some(v), wherever sync() calls occurred.
ReadYourWrites ==
    last[1] = "get" /\ Latest(last[2]) # Tombstone
        => last[3] = Ok(Some(Latest(last[2])))

\* C2: tombstone lookup: a get(k) issued when k was put and the last write to
\* k was delete(k) returns None, with the tombstone in a memtable or in L0.
TombstoneLookup ==
    last[1] = "get" /\ last[2] \in everPut /\ Latest(last[2]) = Tombstone
        => last[3] = Ok(None)

\* C3: absent-key lookup: when no memtable, frozen memtable or L0 table of
\* the snapshot contains k, a get(k) that returns a result returns None; it
\* does not return the value stored under another key.
AbsentKeyLookup ==
    /\ last[1] = "get"
    /\ LayersBinding(ReadOrderLayers(inner, memtables), last[2]) = {}
    /\ ~IsErr(last[3])
    => last[3] = Ok(None)

\* C4: flush preservation: every get and every scan returns what the same
\* writes give on a plain ordered map, whatever sync() calls were interleaved.
FlushPreservation ==
    /\ last[1] = "get" => last[3] = Ok(RefGet(last[2]))
    /\ last[1] = "scan" => last[4] = Ok(RefScan(last[2], last[3]))

\* C5: visibility under concurrency: a get(k) whose snapshot was taken after
\* put(k,v) returned, with no later write to k, and that returns a result,
\* returns Some(v), whatever sync() calls are in flight or completed.
CompletedWriteVisible ==
    /\ reader.pc = "done"
    /\ reader.expect # Tombstone
    /\ ~reader.dirty
    /\ ~IsErr(reader.result)
    => reader.result = Ok(Some(reader.expect))

\* C6: table ids are unique: no two tables built, and no two tables installed
\* in l0_sstables, carry the same id.
UniqueTableIds ==
    /\ \A i, j \in DOMAIN built : i # j => built[i] # built[j]
    /\ \A i, j \in DOMAIN inner.l0_sstables :
          i # j => inner.l0_sstables[i].id # inner.l0_sstables[j].id

\* C7: freshness order: when a key is bound in more than one layer of the
\* published snapshot, the binding met first in read order is the most
\* recent write of that key.
FreshnessOrder ==
    LET layers == ReadOrderLayers(inner, memtables)
    IN \A k \in Keys :
          LET binding == LayersBinding(layers, k)
          IN Cardinality(binding) > 1
                => layers[CHOOSE i \in binding : \A j \in binding : i <= j][k] = Latest(k)

\* C8: scan hides deleted keys: a sequential scan emits no key whose most
\* recent write is a delete.
ScanHidesDeleted ==
    last[1] = "scan"
        => \A k \in KeysOfEntries(Emitted(last[4])) : Latest(k) # Tombstone

\* C8 witness: a scan over a range holding k returned, with k's tombstone in
\* the memtable and k's older value in an L0 table.
ScanHidesDeletedWitness ==
    /\ last[1] = "scan"
    /\ ~IsErr(last[4])
    /\ \E k \in everPut :
          /\ AboveLower(last[2], k) /\ BelowUpper(last[3], k)
          /\ MemTableGet(memtables[inner.memtable], k) = Some(Tombstone)
          /\ \E i \in DOMAIN inner.l0_sstables :
                \E e \in DOMAIN TableEntries(inner.l0_sstables[i]) :
                    /\ TableEntries(inner.l0_sstables[i])[e][1] = k
                    /\ TableEntries(inner.l0_sstables[i])[e][2] # Tombstone

\* C9: scan bounds: every emitted key satisfies both bounds, the keys ascend,
\* and every live key inside the bounds is emitted with its value.
ScanBounds ==
    last[1] = "scan" =>
        LET out == Emitted(last[4])
        IN /\ \A i \in DOMAIN out :
                 AboveLower(last[2], out[i][1]) /\ BelowUpper(last[3], out[i][1])
           /\ \A i, j \in DOMAIN out : i < j => BytesLess(out[i][1], out[j][1])
           /\ \A k \in DOMAIN latest :
                 latest[k] # Tombstone /\ AboveLower(last[2], k) /\ BelowUpper(last[3], k)
                    => \E i \in DOMAIN out : out[i] = <<k, latest[k]>>

\* sorted(unique_by_key(A concat B, prefer A))
MergedPreferA(a, b) ==
    LET ma == EntriesAsMap(a)
        mb == EntriesAsMap(b)
        m == [k \in DOMAIN ma \cup DOMAIN mb |-> IF k \in DOMAIN ma THEN ma[k] ELSE mb[k]]
    IN EntriesOf(SortedKeys(DOMAIN m), m)

\* C10: TwoMergeIterator(A,B), read from creation until invalid, yields
\* sorted(unique_by_key(A concat B, prefer A)); what it has yielded so far is
\* always a prefix of that.
TwoMergeResult ==
    tm.pc \in {"iter", "done"} =>
        LET want == MergedPreferA(tm.a, tm.b)
        IN /\ Len(tmOut) <= Len(want)
           /\ tmOut = SubSeq(want, 1, Len(tmOut))
           /\ tm.pc = "done" => tmOut = want

\* C10 witness: the iterator ran to its end over two sequences that share a
\* key under different values and each hold a key the other lacks.
TwoMergeResultWitness ==
    /\ tm.pc = "done"
    /\ \E k \in KeysOfEntries(tm.a) \cap KeysOfEntries(tm.b) :
          EntriesAsMap(tm.a)[k] # EntriesAsMap(tm.b)[k]
    /\ KeysOfEntries(tm.a) \ KeysOfEntries(tm.b) # {}
    /\ KeysOfEntries(tm.b) \ KeysOfEntries(tm.a) # {}

\* the first index of entries whose key is >= key, 0 if there is none
FirstAtLeast(entries, key) ==
    LET at == {i \in DOMAIN entries : BytesLeq(key, entries[i][1])}
    IN IF at = {} THEN 0 ELSE CHOOSE i \in at : \A j \in at : i <= j

\* C11: SortedTable round-trip: an ascending sequence fed to SsTableBuilder.add
\* under any block size and read back from create_and_seek_to_first with next
\* until invalid is reproduced exactly; what was read so far is a prefix of it
\* and no call fails.
TableRoundTrip ==
    /\ tableTest.pc # "err"
    /\ tableTest.pc \in {"iter", "done"} =>
          /\ Len(tableTest.out) <= Len(tableTest.input)
          /\ tableTest.out = SubSeq(tableTest.input, 1, Len(tableTest.out))
          /\ tableTest.pc = "done" => tableTest.out = tableTest.input

\* C11 witness: the iteration ran to its end over a table of several blocks,
\* one of them holding more than one entry.
TableRoundTripWitness ==
    /\ tableTest.pc = "done"
    /\ NumOfBlocks(tableTest.table) > 1
    /\ Len(tableTest.input) > NumOfBlocks(tableTest.table)

\* C12: table seek: create_and_seek_to_key(k) and seek_to_key(k) leave the
\* iterator on the smallest key of the whole table that is >= k, with its
\* value, and invalid exactly when every key of the table is < k.
TableSeek ==
    tableTest.pc = "sought" =>
        LET i == FirstAtLeast(tableTest.input, tableTest.key)
        IN IF i = 0 THEN ~SsTableIterIsValid(tableTest.iter)
           ELSE /\ SsTableIterIsValid(tableTest.iter)
                /\ SsTableIterKey(tableTest.iter) = tableTest.input[i][1]
                /\ SsTableIterValue(tableTest.iter) = tableTest.input[i][2]

\* C12 witness: a seek of a key that lies in the gap after the last key of
\* the block find_block_idx gave ended on the first key of the next block.
TableSeekWitness ==
    /\ tableTest.pc = "sought"
    /\ SsTableIterIsValid(tableTest.iter)
    /\ tableTest.iter.block_idx = FindBlockIdx(tableTest.table, tableTest.key) + 1
    /\ SsTableIterKey(tableTest.iter) # tableTest.key

\* the first keys of the blocks of a table, by block index + 1
FirstKeys(table) == [i \in 1..NumOfBlocks(table) |-> table.block_metas[i].first_key]

\* C13: find_block_idx: over strictly ascending first keys the index returned
\* is the largest i with first_key[i] <= k, or 0 if there is none, so that
\* first_key[i] <= k < first_key[i+1] whenever those keys exist.
FindBlockIdxResult ==
    tableTest.pc = "found" =>
        LET first_key == FirstKeys(tableTest.table)
            k == tableTest.key
            i == tableTest.found
            below == {j \in DOMAIN first_key : BytesLeq(first_key[j], k)}
        IN /\ \A a, b \in DOMAIN first_key : a < b => BytesLess(first_key[a], first_key[b])
           /\ below = {} => i = 0
           /\ below # {} =>
                 /\ i + 1 \in below
                 /\ \A j \in below : j <= i + 1
                 /\ i + 2 \in DOMAIN first_key => BytesLess(k, first_key[i + 2])

\* C13 witness: a key strictly between the first keys of two inner blocks.
FindBlockIdxResultWitness ==
    /\ tableTest.pc = "found"
    /\ tableTest.found > 0
    /\ tableTest.found + 1 < NumOfBlocks(tableTest.table)
    /\ FirstKeys(tableTest.table)[tableTest.found + 1] # tableTest.key

\* the pairs a builder accepted, in ascending key order
AcceptedEntries == EntriesOf(SortedKeys(DOMAIN blockTest.accepted), blockTest.accepted)

\* C14: block round-trip: the pairs a BlockBuilder accepted, built, encoded
\* and decoded, are returned by the iterator from seek_to_first with next
\* until invalid exactly, in ascending key order; what was read so far is a
\* prefix of them.
BlockRoundTrip ==
    blockTest.pc \in {"iter", "done"} =>
        /\ Len(blockTest.out) <= Len(AcceptedEntries)
        /\ blockTest.out = SubSeq(AcceptedEntries, 1, Len(blockTest.out))
        /\ blockTest.pc = "done" => blockTest.out = AcceptedEntries

\* C14 witness: the iteration ran to its end over a block of several entries
\* with keys of different lengths, an empty value among them.
BlockRoundTripWitness ==
    /\ blockTest.pc = "done"
    /\ Len(blockTest.out) > 1
    /\ \E i, j \in DOMAIN blockTest.out :
          /\ Len(blockTest.out[i][1]) # Len(blockTest.out[j][1])
          /\ blockTest.out[i][2] = <<>>

\* C15: block seek: seek_to_key(k) leaves the cursor on the entry at the
\* smallest index whose key is >= k, with that entry's key and value, and
\* invalid exactly when every key of the block is < k.
BlockSeek ==
    blockTest.pc = "sought" =>
        LET i == FirstAtLeast(AcceptedEntries, blockTest.key)
        IN IF i = 0 THEN ~BlockIterIsValid(blockTest.iter)
           ELSE /\ BlockIterIsValid(blockTest.iter)
                /\ blockTest.iter.idx = i - 1
                /\ BlockIterKey(blockTest.iter) = AcceptedEntries[i][1]
                /\ BlockIterValue(blockTest.iter) = AcceptedEntries[i][2]

\* C15 witness: a seek of a key that is not in the block ended on an entry
\* that is neither the first nor the last.
BlockSeekWitness ==
    /\ blockTest.pc = "sought"
    /\ BlockIterIsValid(blockTest.iter)
    /\ BlockIterKey(blockTest.iter) # blockTest.key
    /\ blockTest.iter.idx > 0
    /\ blockTest.iter.idx + 1 < Len(AcceptedEntries)

\* C16: block-builder capacity: an add that returns false found the builder
\* non-empty and left it unchanged, and the same add on a fresh empty builder
\* of the same target size returns true; an add on an empty builder returns
\* true.
BuilderCapacity ==
    blockTest.pc = "build" /\ blockTest.nadds > 0 =>
        LET a == blockTest.lastAdd
        IN /\ ~a.ok =>
                 /\ ~BlockBuilderIsEmpty(a.before)
                 /\ blockTest.builder = a.before
                 /\ BlockBuilderAdd(BlockBuilderNew(a.before.cap), a.key, a.value).ok
           /\ BlockBuilderIsEmpty(a.before) => a.ok

\* C16 witness: an add was refused by a builder whose first entry alone was
\* over the target size.
BuilderCapacityWitness ==
    /\ blockTest.pc = "build"
    /\ blockTest.nadds > 0
    /\ ~blockTest.lastAdd.ok
    /\ blockTest.builder.size > blockTest.builder.cap

\* the frozen memtables whose sync() has not yet installed its table
InFlight == {syncers[t].flush_memtable : t \in {u \in Syncers : syncers[u].pc # "idle"}}

\* C17: the install step removes the memtable its own sync froze and wrote:
\* in every published snapshot the frozen memtables are exactly those of the
\* sync() calls that have frozen and not yet installed, so that each is
\* reachable through imm_memtables until its table is in l0_sstables and not
\* after.
InstallRemovesFlushed ==
    {inner.imm_memtables[i] : i \in DOMAIN inner.imm_memtables} = InFlight

\* C18: every table in l0_sstables has at least one block, also after a
\* sync() of an empty memtable, and no get or scan fails on a block index
\* out of range.
L0TablesHaveBlocks ==
    /\ \A i \in DOMAIN inner.l0_sstables : NumOfBlocks(inner.l0_sstables[i]) > 0
    /\ last[1] = "get" => ~IsErr(last[3])
    /\ last[1] = "scan" => ~IsErr(last[4])

\* C19: a frozen memtable is never written: a put or delete that holds the
\* read lock is about to insert into the current memtable of the published
\* snapshot, and the table built in step 2 holds exactly the contents of the
\* memtable that sync froze.
FrozenNeverWritten ==
    /\ writer.pc = "locked" => writer.memtable = inner.memtable
    /\ \A t \in Syncers :
          syncers[t].pc = "built" =>
              EntriesAsMap(TableEntries(syncers[t].sst)) = memtables[syncers[t].flush_memtable]

\* C19 witness: a put holds the read lock while one sync() has built its
\* table from a non-empty memtable and another has only frozen one.
FrozenNeverWrittenWitness ==
    /\ writer.pc = "locked"
    /\ \E t, u \in Syncers :
          /\ syncers[t].pc = "built"
          /\ memtables[syncers[t].flush_memtable] # EmptyMap
          /\ syncers[u].pc = "frozen"

\* C20: a failed flush keeps reads correct: once a sync() has returned the
\* error of its build, a get(k) that finds k in the memtable or in a frozen
\* memtable still returns the most recent write of k; the memtable the failed
\* sync left frozen does not shadow newer data flushed later.
FailedFlushReads ==
    /\ last[1] = "get"
    /\ Len(built) < nsyncs
    /\ \E m \in {inner.memtable} \cup {inner.imm_memtables[i] : i \in DOMAIN inner.imm_memtables} :
          last[2] \in DOMAIN memtables[m]
    => last[3] = Ok(RefGet(last[2]))

\* the entries of a block from the iterator's position on
RECURSIVE BlockIterDrain(_)
BlockIterDrain(it) ==
    IF ~BlockIterIsValid(it) THEN <<>>
    ELSE <<<<BlockIterKey(it), BlockIterValue(it)>>>> \o BlockIterDrain(BlockIterNext(it))

\* the encoded bytes of one entry (two length prefixes, one offset slot) and
\* of a block of entries (the count)
EntryBytes(e) == Len(e[1]) + Len(e[2]) + 3 * SIZEOF_U16

RECURSIVE GroupBytes(_)
GroupBytes(g) ==
    IF g = <<>> THEN SIZEOF_U16 ELSE EntryBytes(Head(g)) + GroupBytes(Tail(g))

RECURSIVE GroupsBytes(_)
GroupsBytes(groups) ==
    IF groups = <<>> THEN 0 ELSE GroupBytes(Head(groups)) + GroupsBytes(Tail(groups))

\* the split of a sequence of entries into consecutive blocks: an entry joins
\* the open block while the block stays within block_size bytes, and opens
\* the next block otherwise
RECURSIVE SplitBlocks(_, _, _)
SplitBlocks(entries, block_size, groups) ==
    IF entries = <<>> THEN groups
    ELSE IF /\ groups # <<>>
            /\ GroupBytes(groups[Len(groups)]) + EntryBytes(Head(entries)) <= block_size
         THEN SplitBlocks(Tail(entries), block_size,
                          [groups EXCEPT ![Len(groups)] = Append(@, Head(entries))])
         ELSE SplitBlocks(Tail(entries), block_size, Append(groups, <<Head(entries)>>))

BlockSizeAccounting ==
    blockTest.pc = "build" =>
        LET bb == blockTest.builder
            encoded == BlockEncode(BlockBuilderBuild(bb))
        IN /\ DOMAIN bb.map = DOMAIN blockTest.accepted
           /\ bb.size = Len(encoded)
           /\ bb.size = GroupBytes(AcceptedEntries)
           /\ Cardinality(DOMAIN bb.map) >= 2 => Len(encoded) <= bb.cap

\* C22 witness: in a builder of two entries the last add replaced the value of
\* a key by one of another length and left the block filled to the byte.
BlockSizeAccountingWitness ==
    /\ blockTest.pc = "build"
    /\ blockTest.nadds = MaxAdds
    /\ Cardinality(DOMAIN blockTest.builder.map) = 2
    /\ blockTest.lastAdd.ok
    /\ blockTest.lastAdd.key \in DOMAIN blockTest.lastAdd.before.map
    /\ Len(blockTest.lastAdd.value) # Len(blockTest.lastAdd.before.map[blockTest.lastAdd.key])
    /\ blockTest.builder.size = blockTest.builder.cap

\* C23: invalidity is sticky for cursors: a BlockIterator that is invalid,
\* after next past the last entry or after seek_to_key with a key greater
\* than every key of the block, is still invalid after any number of further
\* next() calls; an SsTableIterator that is invalid at the end of its last
\* block is still invalid after any number of further next() calls, none of
\* which fails, so that no entry is emitted again.
CursorStaysInvalid ==
    /\ blockTest.pc = "past" => ~BlockIterIsValid(blockTest.iter)
    /\ tableTest.pc # "err"
    /\ tableTest.pc = "past" =>
          /\ ~SsTableIterIsValid(tableTest.iter)
          /\ tableTest.iter.block_idx + 1 = NumOfBlocks(tableTest.table)

\* C23 witness: MaxPastEnd further next() calls were made on a block cursor
\* that a seek_to_key of a key greater than every key had left invalid, the
\* block holding several entries.
CursorStaysInvalidWitness ==
    /\ blockTest.pc = "past"
    /\ blockTest.past = MaxPastEnd
    /\ blockTest.out = <<>>
    /\ Len(blockTest.block.offsets) > 1
    /\ \A i \in DOMAIN blockTest.input : BytesLess(blockTest.input[i][1], blockTest.key)

\* C24: TwoMergeIterator position: after create and after every next, if A
\* and B are both valid their current keys differ; key() and value() give A's
\* entry when A is valid and B is invalid or A's key is <= B's key, and B's
\* entry otherwise; is_valid() is false exactly when A and B are both
\* exhausted.
TwoMergePosition ==
    tm.pc = "iter" =>
        LET a == tm.iter.a
            b == tm.iter.b
        IN /\ a.rest # <<>> /\ b.rest # <<>> => Head(a.rest)[1] # Head(b.rest)[1]
           /\ TwoMergeIsValid(tm.iter) = ~(a.rest = <<>> /\ b.rest = <<>>)
           /\ TwoMergeIsValid(tm.iter) =>
                 <<TwoMergeKey(tm.iter), TwoMergeValue(tm.iter)>> =
                     IF a.rest # <<>>
                        /\ (b.rest = <<>> \/ BytesLeq(Head(a.rest)[1], Head(b.rest)[1]))
                     THEN Head(a.rest)
                     ELSE Head(b.rest)

\* C24 witness: A held one entry, on a key B starts with; create passed over
\* B's entry, the first next exhausted A, and the second next, taken with A
\* invalid, left B valid.
TwoMergePositionWitness ==
    /\ tm.pc = "iter"
    /\ Len(tm.a) = 1
    /\ tm.b # <<>>
    /\ tm.a[1][1] = tm.b[1][1]
    /\ Len(tmOut) = 2
    /\ tmOut[1] = tm.a[1]
    /\ tm.iter.a.rest = <<>>
    /\ tm.iter.b.rest # <<>>

\* C25: any single pair fits a block: for every key length and value length,
\* those of 2^16 bytes and more included, the pair is accepted by a fresh
\* builder whatever the target size, and the block built from it, encoded and
\* decoded, gives an iterator that is valid on exactly that key and value.
SinglePairFits ==
    /\ blockTest.pc \in {"added", "read"} => blockTest.ok
    /\ blockTest.pc = "read" =>
          /\ blockTest.valid
          /\ blockTest.same_key
          /\ blockTest.same_value

====
